---- MODULE Spec2Model ----
(***************************************************************************)
(* GoogleDriveIE._real_extract (youtube_dl/extractor/googledrive.py).      *)
(*                                                                         *)
(* Text is a sequence of tokens.  The characters the code splits or        *)
(* searches on (",", "|", "/", "x", "&", the double quote, the digits)      *)
(* are tokens of their own; any other token is an opaque run of            *)
(* characters containing none of them.  An optional value (Python's None   *)
(* or a value) is a set with at most one element: None is {}.              *)
(*                                                                         *)
(* The metadata document is the record of what the regular expressions of  *)
(* _real_extract capture from it: the text of each field, or None where    *)
(* the expression has no match.  Every capture group is [^"]+, so a        *)
(* captured text is never empty.                                           *)
(***************************************************************************)
EXTENDS Integers, Sequences, FiniteSets, TLC

VARIABLES pc, video_id, webpage, title, duration, formats, downloadPage,
          returned, raised, fetches

vars == <<pc, video_id, webpage, title, duration, formats, downloadPage,
          returned, raised, fetches>>

None == {}

Some(v) == {v}

Get(o) == CHOOSE v \in o : TRUE

Str(a) == <<a>>

(* Largest number of comma-separated entries of fmt_stream_map / fmt_list. *)
MaxEntries == 2

----------------------------------------------------------------------------
(* Python string operations *)

Digits == {"0", "1", "2", "3", "4", "5", "6", "7", "8", "9"}

DigitVal == [c \in Digits |->
               CASE c = "0" -> 0 [] c = "1" -> 1 [] c = "2" -> 2 [] c = "3" -> 3
                 [] c = "4" -> 4 [] c = "5" -> 5 [] c = "6" -> 6 [] c = "7" -> 7
                 [] c = "8" -> 8 [] c = "9" -> 9]

RECURSIVE StrToInt(_)
StrToInt(s) ==
    IF s = <<>> THEN 0
    ELSE 10 * StrToInt(SubSeq(s, 1, Len(s) - 1)) + DigitVal[s[Len(s)]]

(* utils.int_or_none: None, the empty string and a non-numeric text give   *)
(* None, a decimal text gives its value.                                   *)
int_or_none(o) ==
    IF o = None THEN None
    ELSE LET s == Get(o) IN
         IF s # <<>> /\ \A i \in 1..Len(s) : s[i] \in Digits
         THEN Some(StrToInt(s))
         ELSE None

(* str.split(sep): the list of the maximal pieces between occurrences of   *)
(* sep; always at least one piece, pieces may be empty.                    *)
split(s, sep) ==
    LET at == { i \in 1..Len(s) : s[i] = sep }
        n == Cardinality(at)
        cut == [k \in 0..(n + 1) |->
                  IF k = 0 THEN 0
                  ELSE IF k = n + 1 THEN Len(s) + 1
                  ELSE CHOOSE i \in at : Cardinality({ j \in at : j < i }) = k - 1]
    IN  [k \in 1..(n + 1) |-> SubSeq(s, cut[k - 1] + 1, cut[k] - 1)]

RECURSIVE Join(_, _)
Join(parts, sep) ==
    IF Len(parts) = 0 THEN <<>>
    ELSE IF Len(parts) = 1 THEN parts[1]
    ELSE parts[1] \o <<sep>> \o Join(Tail(parts), sep)

Min(a, b) == IF a <= b THEN a ELSE b

(* zip replaced by a pairing as long as the longer list, the shorter one  *)
(* padded with empty text.                                                 *)
zip_longest(a, b) ==
    [i \in 1..(IF Len(a) >= Len(b) THEN Len(a) ELSE Len(b)) |->
        <<IF i <= Len(a) THEN a[i] ELSE <<>>,
          IF i <= Len(b) THEN b[i] ELSE <<>> >>]

(* zip(a, b): positional pairs, as long as the shorter list. *)
zip(a, b) == [i \in 1..Min(Len(a), Len(b)) |-> <<a[i], b[i]>>]

----------------------------------------------------------------------------
(* Inputs: the identifiers, the metadata documents and the probe responses *)

VideoIds == { <<"0ByeS4oOUV-49Zzh4R1J6R09zazQ">>,
              <<"1ENcQ_jeCuj7y19s66_Ou9dRP4GKGsodiDQ">> }

(* Entries of fmt_stream_map: two well-formed ones, one whose url holds a   *)
(* further "|", one whose formatId is not in _FORMATS_EXT.                   *)
Stream18 == <<"1", "8", "|", "u18">>

Stream22 == <<"2", "2", "|", "u22">>

StreamTwoPipes == <<"1", "8", "|", "u18", "|", "k">>

StreamUnknownId == <<"9", "9", "|", "u99">>

StreamEntries == { Stream18, Stream22, StreamTwoPipes, StreamUnknownId }

(* Entries of fmt_list: two well-formed ones, a resolution with no "x",     *)
(* one with two "x", one whose fields are not numbers.                       *)
Fmt640x360 == <<"1", "8", "/", "6", "4", "0", "x", "3", "6", "0">>

Fmt1280x720 == <<"2", "2", "/", "1", "2", "8", "0", "x", "7", "2", "0", "/", "9">>

FmtNoX == <<"1", "8", "/", "6", "4", "0">>

FmtTwoX == <<"1", "8", "/", "6", "4", "0", "x", "3", "6", "0", "x", "2">>

FmtNotNumeric == <<"1", "8", "/", "a", "x", "b">>

FmtEntries == { Fmt640x360, Fmt1280x720, FmtNoX, FmtTwoX, FmtNotNumeric }

EntryLists(E) == UNION { [1..n -> E] : n \in 1..MaxEntries }

Csv(E) == { Join(l, ",") : l \in EntryLists(E) }

(* The optional fields (length_seconds, the trailing extension and size,  *)
(* the og:image tag) are present together or absent together.             *)
Optionals ==
    { [length_seconds |-> None, original_extension |-> None,
       original_size |-> None, og_image |-> None],
      [length_seconds |-> Some(<<"4", "5">>),
       original_extension |-> Some(<<"mp4">>),
       original_size |-> Some(<<"5", "5", "1", "0">>),
       og_image |-> Some(<<"https://lh3.googleusercontent.com/thumb">>)] }

Docs ==
    { [reason |-> r, title |-> t, length_seconds |-> o.length_seconds,
       fmt_stream_map |-> m, fmt_list |-> f,
       original_extension |-> o.original_extension,
       original_size |-> o.original_size,
       og_image |-> o.og_image] :
        r \in {None, Some(<<"File removed">>)},
        t \in {None, Some(<<"Big Buck Bunny.mp4">>)},
        m \in {None} \cup { Some(c) : c \in Csv(StreamEntries) },
        f \in {None} \cup { Some(c) : c \in Csv(FmtEntries) },
        o \in Optionals }

(* Probe responses: the file's first bytes (one of them holding "confirm="  *)
(* by chance), a confirmation page, a confirmation page whose first          *)
(* "confirm=" has an empty value, a permission page, and a page whose only   *)
(* "confirm=" has an empty value.                                            *)
PageBinary == <<"\\x00\\x00\\x00 ftypisom">>

PageBinaryConfirm == <<"\\x1aE", "confirm=", "Zq">>

PageConfirm ==
    <<"<!DOCTYPE ", "html", ">", "uc?export=download", "&", "confirm=",
      "AB", "C1", "&", "id=">>

PageSecondConfirm ==
    <<"<", "html", ">", "confirm=", "&", "confirm=", "t0K", "\"">>

PagePermission == <<"<", "html", ">", "You need permission">>

PageEmptyConfirm == <<"<", "html", ">", "confirm=", "\"">>

ProbePages ==
    { PageBinary, PageBinaryConfirm, PageConfirm, PageSecondConfirm,
      PagePermission, PageEmptyConfirm }

----------------------------------------------------------------------------
(* Collaborators of the extractor that live outside googledrive.py *)

Error(kind, msg) == [kind |-> kind, msg |-> msg]

(* InfoExtractor._search_regex: the captured group, or None. *)
SearchRegex(doc, name) == doc[name]

(* InfoExtractor._sort_formats: reorders the list by the ranking policy;    *)
(* which order it gives is not fixed here, so every order is possible.      *)
SortFormats(fs) ==
    { [i \in 1..Len(fs) |-> fs[p[i]]] : p \in Permutations(1..Len(fs)) }

(* InfoExtractor._og_search_thumbnail(webpage, default=None) *)
OgSearchThumbnail(doc) == doc.og_image

----------------------------------------------------------------------------
(* googledrive.py *)

FORMATS_EXT ==
    [k \in { <<"5">>, <<"6">>, <<"1", "3">>, <<"1", "7">>, <<"1", "8">>,
             <<"2", "2">>, <<"3", "4">>, <<"3", "5">>, <<"3", "6">>,
             <<"3", "7">>, <<"3", "8">>, <<"4", "3">>, <<"4", "4">>,
             <<"4", "5">>, <<"4", "6">>, <<"5", "9">> } |->
        CASE k \in { <<"5">>, <<"6">>, <<"3", "4">>, <<"3", "5">> } -> Str("flv")
          [] k \in { <<"1", "3">>, <<"1", "7">>, <<"3", "6">> } -> Str("3gp")
          [] k \in { <<"1", "8">>, <<"2", "2">>, <<"3", "7">>, <<"3", "8">>,
                     <<"5", "9">> } -> Str("mp4")
          [] OTHER -> Str("webm")]

MetadataUrl(id) == Str("http://docs.google.com/file/d/") \o id

ProbeUrl(id) ==
    <<"https://docs.google.com/uc?export=download", "&", "id=">> \o id

(* The confirmed URL built without the identifier. *)
ConfirmUrlWithoutId(confirm, id) ==
    <<"https://docs.google.com/uc?export=download", "&", "confirm=">>
        \o confirm

ConfirmUrl(confirm, id) ==
    <<"https://docs.google.com/uc?export=download", "&", "confirm=">>
        \o confirm \o <<"&", "id=">> \o id

Original == Str("Original")

(* The loop body with width and height taken from the wrong fields. *)
FormatOfWidthHeightSwapped(fmt, fmt_stream) ==
    LET sp == split(fmt_stream, "|")
        fp == split(fmt, "/")
    IN  IF Len(sp) # 2
        THEN [exc |-> Some(Error("ValueError", Str("unpack")))]
        ELSE IF Len(fp) < 2
        THEN [exc |-> Some(Error("IndexError", Str("list index out of range")))]
        ELSE LET wh == split(fp[2], "x")
             IN  IF Len(wh) # 2
                 THEN [exc |-> Some(Error("ValueError", Str("unpack")))]
                 ELSE IF sp[1] \notin DOMAIN FORMATS_EXT
                 THEN [exc |-> Some(Error("KeyError", sp[1]))]
                 ELSE [exc |-> None,
                       entry |-> [url |-> sp[2],
                                  format_id |-> sp[1],
                                  resolution |-> fp[2],
                                  width |-> int_or_none(Some(wh[2])),
                                  height |-> int_or_none(Some(wh[1])),
                                  ext |-> Some(FORMATS_EXT[sp[1]])]]

(* One pass of the loop body, lines 88-98: the entry appended, or the      *)
(* exception the pass raises.                                              *)
FormatOf(fmt, fmt_stream) ==
    LET sp == split(fmt_stream, "|")
        fp == split(fmt, "/")
    IN  IF Len(sp) # 2
        THEN [exc |-> Some(Error("ValueError", Str("unpack")))]
        ELSE IF Len(fp) < 2
        THEN [exc |-> Some(Error("IndexError", Str("list index out of range")))]
        ELSE LET fmt_id == sp[1]
                 fmt_url == sp[2]
                 resolution == fp[2]
                 wh == split(resolution, "x")
             IN  IF Len(wh) # 2
                 THEN [exc |-> Some(Error("ValueError", Str("unpack")))]
                 ELSE IF fmt_id \notin DOMAIN FORMATS_EXT
                 THEN [exc |-> Some(Error("KeyError", fmt_id))]
                 ELSE [exc |-> None,
                       entry |-> [url |-> fmt_url,
                                  format_id |-> fmt_id,
                                  resolution |-> resolution,
                                  width |-> int_or_none(Some(wh[1])),
                                  height |-> int_or_none(Some(wh[2])),
                                  ext |-> Some(FORMATS_EXT[fmt_id])]]

(* The loop of lines 86-98 over zip(fmt_list, fmt_stream_map) from pair i  *)
(* on, acc being the list built so far.                                     *)
RECURSIVE FormatsLoop(_, _, _)
FormatsLoop(pairs, i, acc) ==
    IF i > Len(pairs) THEN [exc |-> None, formats |-> acc]
    ELSE LET r == FormatOf(pairs[i][1], pairs[i][2])
         IN  IF r.exc # None THEN [exc |-> r.exc]
             ELSE FormatsLoop(pairs, i + 1, Append(acc, r.entry))

(* The parse with the title read before the reason is looked at. *)
ParseMetadataTitleFirst(doc) ==
    LET reason == SearchRegex(doc, "reason")
        t == SearchRegex(doc, "title")
        d == int_or_none(SearchRegex(doc, "length_seconds"))
        m == SearchRegex(doc, "fmt_stream_map")
        f == SearchRegex(doc, "fmt_list")
    IN  IF t = None
        THEN [exc |-> Some(Error("RegexNotFoundError", Str("title")))]
        ELSE IF reason # None
        THEN [exc |-> Some(Error("ExtractorError", Get(reason)))]
        ELSE IF m = None
        THEN [exc |-> Some(Error("RegexNotFoundError", Str("fmt stream map")))]
        ELSE IF f = None
        THEN [exc |-> Some(Error("RegexNotFoundError", Str("fmt_list")))]
        ELSE LET r == FormatsLoop(zip(split(Get(f), ","), split(Get(m), ",")),
                                  1, <<>>)
             IN  IF r.exc # None THEN [exc |-> r.exc]
                 ELSE [exc |-> None, title |-> Get(t), duration |-> d,
                       formats |-> r.formats]

(* Lines 75-98: the fields read from the metadata document, in the order   *)
(* the code reads them, up to the unsorted list of formats.                *)
ParseMetadata(doc) ==
    LET reason == SearchRegex(doc, "reason")
        t == SearchRegex(doc, "title")
        d == int_or_none(SearchRegex(doc, "length_seconds"))
        m == SearchRegex(doc, "fmt_stream_map")
        f == SearchRegex(doc, "fmt_list")
    IN  IF reason # None
        THEN [exc |-> Some(Error("ExtractorError", Get(reason)))]
        ELSE IF t = None
        THEN [exc |-> Some(Error("RegexNotFoundError", Str("title")))]
        ELSE IF m = None
        THEN [exc |-> Some(Error("RegexNotFoundError", Str("fmt stream map")))]
        ELSE IF f = None
        THEN [exc |-> Some(Error("RegexNotFoundError", Str("fmt_list")))]
        ELSE LET fmt_stream_map == split(Get(m), ",")
                 fmt_list == split(Get(f), ",")
                 r == FormatsLoop(zip(fmt_list, fmt_stream_map), 1, <<>>)
             IN  IF r.exc # None THEN [exc |-> r.exc]
                 ELSE [exc |-> None, title |-> Get(t), duration |-> d,
                       formats |-> r.formats]

(* 'html' in downloadPage *)
HasHtml(page) == \E i \in 1..Len(page) : page[i] = "html"

(* re.search(r'confirm=([^&"]+)', downloadPage): the leftmost "confirm="     *)
(* followed by at least one character other than "&" and the double quote,  *)
(* and the longest run of such characters after it; None without it.       *)
ConfirmStop(c) == c \in {"&", "\""}

RECURSIVE RunFrom(_, _)
RunFrom(page, i) ==
    IF i > Len(page) \/ ConfirmStop(page[i]) THEN <<>>
    ELSE <<page[i]>> \o RunFrom(page, i + 1)

SearchConfirm(page) ==
    LET hits == { i \in 1..Len(page) :
                    page[i] = "confirm=" /\ RunFrom(page, i + 1) # <<>> }
    IN  IF hits = {} THEN None
        ELSE Some(RunFrom(page, (CHOOSE i \in hits : \A j \in hits : i <= j) + 1))

(* The classification with downloadable left True on a page without a   *)
(* token: the probed URL is used.                                          *)
ResolveIgnoresMissingToken(page, id) ==
    IF HasHtml(page) /\ SearchConfirm(page) # None
    THEN Some(ConfirmUrl(Get(SearchConfirm(page)), id))
    ELSE Some(ProbeUrl(id))

(* Lines 101-112: the download URL, or None when the file cannot be        *)
(* downloaded (downloadable = False).                                      *)
Resolve(page, id) ==
    IF HasHtml(page)
    THEN LET confirm == SearchConfirm(page)
         IN  IF confirm # None THEN Some(ConfirmUrl(Get(confirm), id))
             ELSE None
    ELSE Some(ProbeUrl(id))

(* Lines 114-122: the entry of the original file. *)
OriginalEntry(dlstring, doc) ==
    [url |-> dlstring,
     format_id |-> Original,
     ext |-> SearchRegex(doc, "original_extension"),
     filesize |-> int_or_none(SearchRegex(doc, "original_size")),
     protocol |-> Str("https")]

(* The original file's entry put in front of the list. *)
AddOriginalFirst(fs, dl, doc) ==
    IF dl # None THEN <<OriginalEntry(Get(dl), doc)>> \o fs ELSE fs

(* Lines 113-122: the list of formats with the original file's entry added *)
(* when there is a download URL.                                           *)
AddOriginal(fs, dl, doc) ==
    IF dl # None THEN Append(fs, OriginalEntry(Get(dl), doc)) ELSE fs

----------------------------------------------------------------------------
(* _real_extract as a state machine; a step ends at each network fetch.    *)

Init ==
    /\ pc = "start"
    /\ video_id \in VideoIds
    /\ webpage = None
    /\ title = None
    /\ duration = None
    /\ formats = <<>>
    /\ downloadPage = None
    /\ returned = None
    /\ raised = None
    /\ fetches = <<>>

(* Lines 71-73: the metadata document is fetched. *)
DownloadWebpage ==
    /\ pc = "start"
    /\ fetches' = Append(fetches, MetadataUrl(video_id))
    /\ \E doc \in Docs : webpage' = Some(doc)
    /\ pc' = "fetched"
    /\ UNCHANGED <<video_id, title, duration, formats, downloadPage,
                   returned, raised>>

(* Lines 72-73: the fetch fails and _download_webpage raises. *)
DownloadWebpageFails ==
    /\ pc = "start"
    /\ fetches' = Append(fetches, MetadataUrl(video_id))
    /\ raised' = Some(Error("FetchError", MetadataUrl(video_id)))
    /\ pc' = "done"
    /\ UNCHANGED <<video_id, webpage, title, duration, formats, downloadPage,
                   returned>>

(* Lines 75-99: the document is parsed and the formats are sorted. *)
ExtractMetadata ==
    /\ pc = "fetched"
    /\ LET r == ParseMetadata(Get(webpage))
       IN  IF r.exc # None
           THEN /\ raised' = r.exc
                /\ pc' = "done"
                /\ UNCHANGED <<title, duration, formats>>
           ELSE /\ title' = Some(r.title)
                /\ duration' = r.duration
                /\ formats' \in SortFormats(r.formats)
                /\ pc' = "parsed"
                /\ UNCHANGED raised
    /\ UNCHANGED <<video_id, webpage, downloadPage, returned, fetches>>

(* Line 104: the download endpoint is probed. *)
DownloadProbe ==
    /\ pc = "parsed"
    /\ fetches' = Append(fetches, ProbeUrl(video_id))
    /\ \E page \in ProbePages : downloadPage' = Some(page)
    /\ pc' = "probed"
    /\ UNCHANGED <<video_id, webpage, title, duration, formats, returned,
                   raised>>

(* Line 104: the probe fails and _download_webpage raises. *)
DownloadProbeFails ==
    /\ pc = "parsed"
    /\ fetches' = Append(fetches, ProbeUrl(video_id))
    /\ raised' = Some(Error("FetchError", ProbeUrl(video_id)))
    /\ pc' = "done"
    /\ UNCHANGED <<video_id, webpage, title, duration, formats, downloadPage,
                   returned>>

(* The last step with the confirmed URL fetched once more. *)
ResolveAndReturnRefetch ==
    /\ pc = "probed"
    /\ formats' = AddOriginal(formats, Resolve(Get(downloadPage), video_id),
                              Get(webpage))
    /\ returned' = Some([id |-> video_id,
                         title |-> Get(title),
                         thumbnail |-> OgSearchThumbnail(Get(webpage)),
                         duration |-> duration,
                         formats |-> formats'])
    /\ pc' = "done"
    /\ fetches' = IF HasHtml(Get(downloadPage))
                     /\ SearchConfirm(Get(downloadPage)) # None
                  THEN Append(fetches, Get(Resolve(Get(downloadPage), video_id)))
                  ELSE fetches
    /\ UNCHANGED <<video_id, webpage, title, duration, downloadPage, raised>>

(* Lines 105-130: the probe is classified, the original file's entry is    *)
(* added when there is a download URL, and the result is returned.         *)
ResolveAndReturn ==
    /\ pc = "probed"
    /\ formats' = AddOriginal(formats, Resolve(Get(downloadPage), video_id),
                              Get(webpage))
    /\ returned' = Some([id |-> video_id,
                         title |-> Get(title),
                         thumbnail |-> OgSearchThumbnail(Get(webpage)),
                         duration |-> duration,
                         formats |-> formats'])
    /\ pc' = "done"
    /\ UNCHANGED <<video_id, webpage, title, duration, downloadPage, raised,
                   fetches>>

Next ==
    \/ DownloadWebpage
    \/ DownloadWebpageFails
    \/ ExtractMetadata
    \/ DownloadProbe
    \/ DownloadProbeFails
    \/ ResolveAndReturn

Spec == Init /\ [][Next]_vars

----------------------------------------------------------------------------
(* What the claims speak of *)

Doc == Get(webpage)

Result == Get(returned)

Exc == Get(raised)

IsOriginal(e) == e.format_id = Original

NotOriginal(e) == e.format_id # Original

StreamPart(fs) == SelectSeq(fs, NotOriginal)

OriginalPart(fs) == SelectSeq(fs, IsOriginal)

(* The document has no reason and has the three required fields. *)
DocComplete(doc) ==
    /\ doc.reason = None
    /\ doc.title # None
    /\ doc.fmt_stream_map # None
    /\ doc.fmt_list # None

StreamList(doc) == split(Get(doc.fmt_stream_map), ",")

FmtList(doc) == split(Get(doc.fmt_list), ",")

NPaired(doc) == Min(Len(StreamList(doc)), Len(FmtList(doc)))

(* The paired entries of the document all belong to the given sets. *)
PairedIn(doc, streams, fmts) ==
    /\ DocComplete(doc)
    /\ LET sl == StreamList(doc)
           fl == FmtList(doc)
       IN  \A i \in 1..Min(Len(sl), Len(fl)) : sl[i] \in streams /\ fl[i] \in fmts

(* What the specification expects of each entry: formatId and url are the  *)
(* text before and after the first "|", width and height the two numbers   *)
(* of a well-formed resolution, absent otherwise.                          *)
ExpectedStream(e) ==
    CASE e = Stream18 -> [format_id |-> <<"1", "8">>, url |-> <<"u18">>,
                          ext |-> Some(<<"mp4">>)]
      [] e = Stream22 -> [format_id |-> <<"2", "2">>, url |-> <<"u22">>,
                          ext |-> Some(<<"mp4">>)]
      [] e = StreamTwoPipes -> [format_id |-> <<"1", "8">>,
                                url |-> <<"u18", "|", "k">>,
                                ext |-> Some(<<"mp4">>)]
      [] OTHER -> [format_id |-> <<"9", "9">>, url |-> <<"u99">>, ext |-> None]

ExpectedFmt(e) ==
    CASE e = Fmt640x360 -> [resolution |-> <<"6", "4", "0", "x", "3", "6", "0">>,
                            width |-> Some(640), height |-> Some(360)]
      [] e = Fmt1280x720 -> [resolution |-> <<"1", "2", "8", "0", "x", "7", "2", "0">>,
                             width |-> Some(1280), height |-> Some(720)]
      [] e = FmtNoX -> [resolution |-> <<"6", "4", "0">>,
                        width |-> None, height |-> None]
      [] e = FmtTwoX -> [resolution |-> <<"6", "4", "0", "x", "3", "6", "0", "x", "2">>,
                         width |-> None, height |-> None]
      [] OTHER -> [resolution |-> <<"a", "x", "b">>,
                   width |-> None, height |-> None]

ExpectedEntry(fmt, stream) ==
    [url |-> ExpectedStream(stream).url,
     format_id |-> ExpectedStream(stream).format_id,
     resolution |-> ExpectedFmt(fmt).resolution,
     width |-> ExpectedFmt(fmt).width,
     height |-> ExpectedFmt(fmt).height,
     ext |-> ExpectedStream(stream).ext]

ExpectedFormats(doc) ==
    LET sl == StreamList(doc)
        fl == FmtList(doc)
    IN  [i \in 1..Min(Len(sl), Len(fl)) |-> ExpectedEntry(fl[i], sl[i])]

IsPermutation(a, b) ==
    /\ Len(a) = Len(b)
    /\ \E p \in Permutations(1..Len(a)) : \A i \in 1..Len(a) : a[i] = b[p[i]]

Contains(s, sub) ==
    \E i \in 1..(Len(s) - Len(sub) + 1) : SubSeq(s, i, i + Len(sub) - 1) = sub

(* The page has the HTML marker and no "confirm=" followed by a value. *)
HtmlWithoutToken(page) ==
    /\ \E i \in 1..Len(page) : page[i] = "html"
    /\ \A i \in 1..Len(page) :
          page[i] = "confirm=" => (i = Len(page) \/ page[i + 1] \in {"&", "\""})

GoodStreams == {Stream18, Stream22}

GoodFmts == {Fmt640x360, Fmt1280x720, FmtNotNumeric}

----------------------------------------------------------------------------
(* C1: when the fetched metadata document has a reason field, the          *)
(* extraction fails with an error carrying exactly that text, whatever the *)
(* other fields are: nothing is returned, no other error is raised and the *)
(* download endpoint is never probed.                                      *)
C1_ReasonAborts ==
    (webpage # None /\ Doc.reason # None) =>
        /\ pc \in {"fetched", "done"}
        /\ returned = None
        /\ fetches = <<MetadataUrl(video_id)>>
        /\ pc = "fetched" => raised = None
        /\ pc = "done" => raised = Some(Error("ExtractorError", Get(Doc.reason)))

C1_Witness ==
    /\ pc = "done"
    /\ webpage # None
    /\ Doc.reason = Some(<<"File removed">>)
    /\ Doc.title = None
    /\ Doc.fmt_list = None
    /\ Doc.fmt_stream_map = Some(StreamUnknownId)
    /\ raised # None

(* C2: when the metadata document parsed and the probe response is HTML    *)
(* with no confirm token, the extraction returns without raising; the      *)
(* result has no 'Original' entry, and its id, title, duration and formats *)
(* are those computed from the metadata document before the probe.  For    *)
(* every probe response, the stream-derived entries of the result are the  *)
(* list computed before the probe.                                         *)
C2_UnavailableKeepsRest ==
    [][pc = "probed" =>
         /\ pc' = "done"
         /\ raised' = None
         /\ returned' # None
         /\ Result'.id = video_id
         /\ Result'.title = Get(Doc.title)
         /\ Result'.duration = IF Doc.length_seconds = None THEN None ELSE Some(45)
         /\ StreamPart(Result'.formats) = formats
         /\ HtmlWithoutToken(Get(downloadPage)) =>
               /\ Result'.formats = formats
               /\ \A i \in 1..Len(Result'.formats) :
                     Result'.formats[i].format_id # Original]_vars

C2_Witness ==
    /\ pc = "done"
    /\ returned # None
    /\ downloadPage = Some(PagePermission)
    /\ Len(Result.formats) = 2
    /\ Result.duration = Some(45)

(* C3: a result holds an 'Original' entry exactly when the probe response  *)
(* has no HTML marker or has the marker and a confirm token, and then      *)
(* exactly one; without the marker its url is the probed URL               *)
(* https://docs.google.com/uc?export=download&id=<id>, with marker and     *)
(* token its url carries confirm=<token> and id=<id>.                      *)
C3_OriginalUrl ==
    returned # None =>
        LET page == Get(downloadPage)
            orig == OriginalPart(Result.formats)
            html == \E i \in 1..Len(page) : page[i] = "html"
            token == CASE page = PageConfirm -> Some(<<"AB", "C1">>)
                       [] page = PageSecondConfirm -> Some(<<"t0K">>)
                       [] OTHER -> None
        IN  /\ Len(orig) = (IF ~html \/ token # None THEN 1 ELSE 0)
            /\ ~html =>
                 /\ orig[1].url = fetches[2]
                 /\ orig[1].url = <<"https://docs.google.com/uc?export=download",
                                    "&", "id=">> \o video_id
            /\ (html /\ token # None) =>
                 /\ Contains(orig[1].url, <<"&", "confirm=">> \o Get(token) \o <<"&">>)
                 /\ Contains(orig[1].url, <<"&", "id=">> \o video_id)
                 /\ orig[1].url[1] = "https://docs.google.com/uc?export=download"

C3_Witness ==
    /\ returned # None
    /\ downloadPage = Some(PageSecondConfirm)
    /\ Len(OriginalPart(Result.formats)) = 1

(* C4: no two entries of a returned formats list share a format_id, also   *)
(* when fmt_stream_map lists the same formatId more than once.             *)
C4_UniqueFormatIds ==
    returned # None =>
        \A i, j \in 1..Len(Result.formats) :
            i # j => Result.formats[i].format_id # Result.formats[j].format_id

(* C5: a well-formed resolution "WxH" gives width W and height H, and a    *)
(* malformed one (no "x", more than one "x") gives an entry with width and *)
(* height absent and never makes the extraction fail.                      *)
C5_MalformedResolutionTolerated ==
    (pc = "done" /\ webpage # None /\ PairedIn(Doc, GoodStreams, FmtEntries)) =>
        /\ raised # None => Exc.kind = "FetchError"
        /\ returned # None =>
              IsPermutation(StreamPart(Result.formats), ExpectedFormats(Doc))

(* C6 as stated: the stream-derived entries of the result are the N paired *)
(* entries of the document in the order of the document.                   *)
C6_InputOrder ==
    returned # None => StreamPart(Result.formats) = ExpectedFormats(Doc)

(* C6: the stream-derived entries of the result are exactly the N paired   *)
(* entries of the document, the i-th pair giving formatId and url of the   *)
(* i-th fmt_stream_map entry, resolution, width and height of the i-th     *)
(* fmt_list entry and the extension of the table, in the order             *)
(* _sort_formats puts them in.                                             *)
C6_SortedPairs ==
    returned # None =>
        IsPermutation(StreamPart(Result.formats), ExpectedFormats(Doc))

C6_Witness ==
    /\ returned # None
    /\ Doc.fmt_stream_map = Some(Join(<<Stream22, Stream18>>, ","))
    /\ Doc.fmt_list = Some(Join(<<Fmt1280x720, Fmt640x360>>, ","))
    /\ StreamPart(Result.formats)[1].format_id = <<"1", "8">>
    /\ StreamPart(Result.formats)[1].height = Some(360)

(* C7: a result has at most one 'Original' entry; it is the last one, has  *)
(* no resolution, width or height, and is the only entry with filesize and *)
(* protocol; every other entry has a resolution.                           *)
C7_OriginalLast ==
    returned # None =>
        LET fs == Result.formats
        IN  /\ Len(OriginalPart(fs)) <= 1
            /\ \A i \in 1..Len(fs) :
                 IF fs[i].format_id = Original
                 THEN /\ i = Len(fs)
                      /\ DOMAIN fs[i] \cap {"resolution", "width", "height"} = {}
                      /\ {"filesize", "protocol"} \subseteq DOMAIN fs[i]
                 ELSE /\ "resolution" \in DOMAIN fs[i]
                      /\ DOMAIN fs[i] \cap {"filesize", "protocol"} = {}

C7_Witness ==
    /\ returned # None
    /\ Len(Result.formats) = 3
    /\ Result.formats[3].format_id = Original
    /\ Result.formats[1].format_id # Result.formats[2].format_id

(* C8: the fetches of a run are the metadata fetch, then at most one probe *)
(* of the download endpoint, then none; the probe comes only after the     *)
(* document parsed without error, and the confirm-token branch fetches     *)
(* nothing more; a run that has not ended has no outcome yet and, before   *)
(* and after each fetch, can take its next step (the parse step in between *)
(* needs nothing but the fetched document); one that has ended has exactly *)
(* one outcome, an error or a result, and takes no further step.           *)
C8_FetchSequence ==
    /\ fetches \in { <<>>, <<MetadataUrl(video_id)>>,
                     <<MetadataUrl(video_id), ProbeUrl(video_id)>> }
    /\ Len(fetches) = 2 =>
          /\ webpage # None /\ DocComplete(Doc) /\ title # None
          /\ raised # None => Exc = Error("FetchError", ProbeUrl(video_id))
    /\ returned # None => Len(fetches) = 2 /\ downloadPage # None
    /\ pc # "done" => raised = None /\ returned = None
    /\ pc \in {"start", "parsed", "probed"} => ENABLED Next
    /\ pc = "fetched" => webpage # None
    /\ pc = "done" =>
          /\ (raised = None) # (returned = None)
          /\ ~ ENABLED Next

C8_Witness ==
    /\ pc = "done"
    /\ returned # None
    /\ downloadPage = Some(PageConfirm)
    /\ Len(fetches) = 2

(* C9: an fmt_stream_map entry with more than one "|" is split on the      *)
(* first one only: formatId is the text before it, url everything after    *)
(* it, and the extraction does not fail.                                   *)
C9_SplitOnFirstPipe ==
    (pc = "done" /\ webpage # None
       /\ PairedIn(Doc, GoodStreams \cup {StreamTwoPipes}, GoodFmts)) =>
        /\ raised # None => Exc.kind = "FetchError"
        /\ returned # None =>
              IsPermutation(StreamPart(Result.formats), ExpectedFormats(Doc))

(* C10: lists of different lengths are paired up to the shorter one: the   *)
(* result has min(len(fmt_list), len(fmt_stream_map)) stream-derived       *)
(* entries and at least one; when the paired entries are well-formed no    *)
(* error is raised by the parse, whatever the surplus entries are.         *)
C10_Truncation ==
    /\ returned # None =>
          /\ Len(StreamPart(Result.formats)) = NPaired(Doc)
          /\ Len(StreamPart(Result.formats)) >= 1
    /\ (raised # None /\ webpage # None /\ PairedIn(Doc, GoodStreams, GoodFmts)) =>
          Exc.kind = "FetchError"

C10_Witness ==
    /\ returned # None
    /\ Len(FmtList(Doc)) = 1
    /\ Len(StreamList(Doc)) = 2
    /\ StreamList(Doc)[2] = StreamUnknownId
    /\ Len(StreamPart(Result.formats)) = 1

====
